---- MODULE Spec2Model ----
(***************************************************************************)
(* Model of the image request/response pipeline of the book-cover face     *)
(* merger: the upload gate and the Streamlit session of app.py, and the    *)
(* GeminiImageClient of gemini_client.py (preparation, prompt, the four    *)
(* remote operations).                                                     *)
(***************************************************************************)
EXTENDS Integers, Sequences, FiniteSets, TLC

\* ------------------------------------------------------------------------
\* Values.  Python's None has one stand-in per type, so that every variable
\* keeps one shape.

\* A decoded PIL image: its size, its colour mode and the length in bytes of
\* its JPEG encoding (what image.save(buffer, format='JPEG') would produce).
NoImage == [w |-> 0, h |-> 0, mode |-> "None", jpeg |-> 0]

Img(w, h, mode, jpeg) == [w |-> w, h |-> h, mode |-> mode, jpeg |-> jpeg]

\* ------------------------------------------------------------------------
\* IEEE-754 binary64 arithmetic on positive values, as CPython's float does
\* it.  A float is [m, e]: m = <<d0, d1, d2, d3, d4>> are the 53 mantissa
\* bits as digits in base 2^13 (d0 = 1, the leading bit), and the value is
\* (d0*B^4 + d1*B^3 + d2*B^2 + d3*B + d4) * 2^(e - 52).  The integers that
\* enter (image sizes) are below 2^13, so every intermediate fits 31 bits.

RECURSIVE Pow2(_)
Pow2(n) == IF n = 0 THEN 1 ELSE 2 * Pow2(n - 1)

DigitBase == Pow2(13)

\* The number of binary digits of a natural number.
RECURSIVE BitLen(_)
BitLen(v) == IF v = 0 THEN 0 ELSE 1 + BitLen(v \div 2)

\* Round-to-nearest, ties-to-even, of the mantissa m (leading bit of weight
\* 2^e), given whether the discarded tail is above ("gt"), at ("eq") or
\* below ("lt") half a unit in the last place.
RoundNearestEven(m, e, tail) ==
  LET up == tail = "gt" \/ (tail = "eq" /\ m[5] % 2 = 1)
      s4 == m[5] + 1
      s3 == m[4] + s4 \div DigitBase
      s2 == m[3] + s3 \div DigitBase
      s1 == m[2] + s2 \div DigitBase
      s0 == m[1] + s1 \div DigitBase
  IN  IF ~up THEN [m |-> m, e |-> e]
      ELSE IF s0 = 2
           THEN [m |-> <<1, 0, 0, 0, 0>>, e |-> e + 1]
           ELSE [m |-> <<s0, s1 % DigitBase, s2 % DigitBase,
                         s3 % DigitBase, s4 % DigitBase>>,
                 e |-> e]

\* Scale n up by powers of two until d <= n.
RECURSIVE ScaleUp(_, _)
ScaleUp(n, d) == IF n >= d THEN n ELSE ScaleUp(2 * n, d)

RECURSIVE ScaleUpExp(_, _)
ScaleUpExp(n, d) == IF n >= d THEN 0 ELSE ScaleUpExp(2 * n, d) - 1

\* Scale d up by powers of two while 2d <= n.
RECURSIVE ScaleDown(_, _)
ScaleDown(n, d) == IF n < 2 * d THEN d ELSE ScaleDown(n, 2 * d)

RECURSIVE ScaleDownExp(_, _)
ScaleDownExp(n, d) == IF n < 2 * d THEN 0 ELSE ScaleDownExp(n, 2 * d) + 1

\* Long division of r0 / d1 (r0 < d1): four quotient digits after the
\* leading 1, rounded by the remainder.
DivDigits(r0, d1, e) ==
  LET r1   == (r0 * DigitBase) % d1
      r2   == (r1 * DigitBase) % d1
      r3   == (r2 * DigitBase) % d1
      r4   == (r3 * DigitBase) % d1
      tail == IF 2 * r4 > d1 THEN "gt" ELSE IF 2 * r4 = d1 THEN "eq" ELSE "lt"
  IN  RoundNearestEven(<< 1,
                          (r0 * DigitBase) \div d1, (r1 * DigitBase) \div d1,
                          (r2 * DigitBase) \div d1, (r3 * DigitBase) \div d1 >>,
                       e, tail)

\* n1 / d1 for normalised operands, d1 <= n1 < 2*d1: the quotient's leading
\* digit is 1.
DivNormal(n1, d1, e) == DivDigits(n1 - d1, d1, e)

DivScaled(n1, d, e) == DivNormal(n1, ScaleDown(n1, d), e + ScaleDownExp(n1, d))

\* n / d for positive integers (Python's true division): the correctly
\* rounded quotient.
FloatDiv(n, d) == DivScaled(ScaleUp(n, d), d, ScaleUpExp(n, d))

\* k * m for an integer 0 < k < 2^13 and a mantissa m: the exact product's
\* digits <<top, p1, p2, p3, p4>>, the top one not reduced.
MulDigits(k, m) ==
  LET t4 == k * m[5]
      t3 == k * m[4] + t4 \div DigitBase
      t2 == k * m[3] + t3 \div DigitBase
      t1 == k * m[2] + t2 \div DigitBase
  IN  << k * m[1] + t1 \div DigitBase,
         t1 % DigitBase, t2 % DigitBase, t3 % DigitBase, t4 % DigitBase >>

\* The exact product p (leading bit of weight 2^(e + s)) has 53 + s bits:
\* its s low bits, below lo = 2^s, are rounded away.
ShiftRound(p, e, s, lo) ==
  LET hi   == DigitBase \div lo
      drop == p[5] % lo
      tail == IF s = 0 \/ 2 * drop < lo THEN "lt"
              ELSE IF 2 * drop = lo THEN "eq" ELSE "gt"
  IN  RoundNearestEven(<< p[1] \div lo,
                          (p[1] % lo) * hi + p[2] \div lo,
                          (p[2] % lo) * hi + p[3] \div lo,
                          (p[3] % lo) * hi + p[4] \div lo,
                          (p[4] % lo) * hi + p[5] \div lo >>,
                       e + s, tail)

RoundProduct(p, e, s) == ShiftRound(p, e, s, Pow2(s))

RoundDigits(p, e) == RoundProduct(p, e, BitLen(p[1]) - 1)

\* k * x for an integer 0 < k < 2^13 (exactly representable) and a float x
\* (Python's int * float): the correctly rounded product.
FloatMulInt(k, x) == RoundDigits(MulDigits(k, x.m), x.e)

\* int(x) for a positive float below 2^26: truncation toward zero keeps the
\* e + 1 leading bits of the mantissa.
FloatToInt(x) ==
  IF x.e < 0 THEN 0
  ELSE IF x.e <= 13
       THEN (x.m[1] * DigitBase + x.m[2]) \div Pow2(13 - x.e)
       ELSE ((x.m[1] * DigitBase + x.m[2]) * DigitBase + x.m[3]) \div Pow2(26 - x.e)

\* ------------------------------------------------------------------------
\* Results of a Python call: what it returned, or the exception it raised.
\* kind is "image", "none", "text", "pair" (a (bool, message) tuple) or
\* "raise"; the fields a kind does not use keep their empty value.  A message
\* built by an f-string is the sequence of its pieces.

Result(kind, exc, image, ok, text) ==
  [kind |-> kind, exc |-> exc, image |-> image, ok |-> ok, text |-> text]

ReturnImage(image) == Result("image", "", image, FALSE, <<>>)
ReturnNone         == Result("none", "", NoImage, FALSE, <<>>)
ReturnText(text)   == Result("text", "", NoImage, FALSE, text)
ReturnPair(ok, text) == Result("pair", "", NoImage, ok, text)
Raise(exc)         == Result("raise", exc, NoImage, FALSE, <<>>)

\* What a call did: its result and the generate_content requests it issued,
\* in order.
Did(result, requests) == [result |-> result, requests |-> requests]

\* ------------------------------------------------------------------------
\* gemini_client.py: GeminiImageClient

\* os.getenv("GEMINI_API_KEY"): unset (None), set to "", or set to a key.
EnvKeys == {"<unset>", "", "key"}

NoClient == [api_key |-> "<unset>", model |-> "None"]

\* __init__: `not self.api_key` is true of None and of the empty string;
\* genai.Client() raises sdk_exc when that is not "".
GeminiImageClient_init_unset_only(env_key, sdk_exc) ==
  IF env_key = "<unset>"
  THEN [raised |-> TRUE, exc |-> "GEMINI_API_KEY not found in environment variables",
        type |-> "ValueError", client |-> NoClient, remote_client |-> FALSE]
  ELSE IF sdk_exc # ""
  THEN [raised |-> TRUE, exc |-> sdk_exc, type |-> "Exception",
        client |-> NoClient, remote_client |-> FALSE]
  ELSE [raised |-> FALSE, exc |-> "", type |-> "",
        client |-> [api_key |-> env_key,
                    model |-> "gemini-2.0-flash-preview-image-generation"],
        remote_client |-> TRUE]

GeminiImageClient_init(env_key, sdk_exc) ==
  IF env_key = "<unset>" \/ env_key = ""
  THEN [raised |-> TRUE, exc |-> "GEMINI_API_KEY not found in environment variables",
        type |-> "ValueError", client |-> NoClient, remote_client |-> FALSE]
  ELSE IF sdk_exc # ""
  THEN [raised |-> TRUE, exc |-> sdk_exc, type |-> "Exception",
        client |-> NoClient, remote_client |-> FALSE]
  ELSE [raised |-> FALSE, exc |-> "", type |-> "",
        client |-> [api_key |-> env_key,
                    model |-> "gemini-2.0-flash-preview-image-generation"],
        remote_client |-> TRUE]

Max(a, b) == IF a >= b THEN a ELSE b
Min(a, b) == IF a <= b THEN a ELSE b

\* image.convert('RGB')
ConvertRGB(image) == [image EXCEPT !.mode = "RGB"]

\* image.resize((new_width, new_height), LANCZOS): Pillow refuses an empty
\* target size.
Resize(image, new_width, new_height) ==
  IF new_width <= 0 \/ new_height <= 0
  THEN Raise("ValueError: height and width must be > 0")
  ELSE ReturnImage([image EXCEPT !.w = new_width, !.h = new_height])

\* A scaling by the smaller side, for comparison.
ScaledSide_min(side, width, height, max_size) ==
  FloatToInt(FloatMulInt(side, FloatDiv(max_size, Min(width, height))))

\* The side of the resized image that comes from `side`:
\* int(side * (max_size / max(width, height))), in float arithmetic.
ScaledSide(side, width, height, max_size) ==
  FloatToInt(FloatMulInt(side, FloatDiv(max_size, Max(width, height))))

\* _prepare_image_for_api, lines 42-49, on the image in RGB.
ResizeIfLarge(rgb, max_size) ==
  IF Max(rgb.w, rgb.h) > max_size
  THEN Resize(rgb, ScaledSide(rgb.w, rgb.w, rgb.h, max_size),
                   ScaledSide(rgb.h, rgb.w, rgb.h, max_size))
  ELSE ReturnImage(rgb)

\* _prepare_image_for_api(image, max_size)
prepare_image_for_api(image, max_size) ==
  ResizeIfLarge(IF image.mode # "RGB" THEN ConvertRGB(image) ELSE image, max_size)

DefaultMaxSize == 1024

\* _create_merge_prompt(merge_style)
base_prompt ==
  "I have two images: a child's face photo and a book cover. Please merge the child's face seamlessly into the book cover design. \n\nRequirements:\n- Integrate the child's face naturally into the book cover\n- Keep the book's title, text, and design elements intact\n- Match the lighting and color tone of the book cover\n- Make the face placement look professional and appealing\n- Ensure the integration appears natural and well-blended"

style_additions ==
  [style \in {"natural", "artistic", "cartoon"} |->
     CASE style = "natural" ->
            "Keep the child's face realistic with natural lighting that matches the book cover style."
       [] style = "artistic" ->
            "Apply artistic effects to blend the face with the book's illustration style while keeping it recognizable."
       [] style = "cartoon" ->
            "Stylize the face to match cartoon or illustrated book aesthetics if the cover has that style."]

\* style_additions.get(merge_style, style_additions['natural'])
StyleClause_default_artistic(merge_style) ==
  IF merge_style \in DOMAIN style_additions
  THEN style_additions[merge_style] ELSE style_additions["artistic"]

StyleClause(merge_style) ==
  IF merge_style \in DOMAIN style_additions
  THEN style_additions[merge_style] ELSE style_additions["natural"]

create_merge_prompt(merge_style) ==
  << base_prompt, "\n- ", StyleClause(merge_style),
     "\n\nGenerate the merged book cover image with the child's face integrated." >>

\* ------------------------------------------------------------------------
\* The remote service's answer to one generate_content call.
\*   shape "raise":         the call raised (transport or API error `exc`)
\*   shape "no_candidates": response.candidates is empty, [0] raises
\*   shape "no_content":    candidates[0].content is None
\*   shape "no_parts":      content.parts is None
\*   shape "parts":         content.parts is the list `parts`
\* A part is [text, inline_data]; either may be None.

NoText == "<None>"
NoData == "<None>"

Part(text, inline_data) == [text |-> text, inline_data |-> inline_data]

Response(shape, exc, parts) == [shape |-> shape, exc |-> exc, parts |-> parts]

\* Image.open(BytesIO(data)): the payloads the model knows decode to these
\* images; anything else is not an image.
ImageOpen(data) ==
  CASE data = "png:cover-1" -> ReturnImage(Img(400, 600, "RGB", 0))
    [] data = "png:cover-2" -> ReturnImage(Img(1024, 1024, "RGBA", 0))
    [] OTHER -> Raise("UnidentifiedImageError: cannot identify image file")

\* for part in parts: if part.inline_data is not None: return Image.open(...)
\* ... return None
RECURSIVE ScanInline_last(_)
ScanInline_last(parts) ==
  IF parts = <<>> THEN ReturnNone
  ELSE IF parts[Len(parts)].inline_data # NoData
       THEN ImageOpen(parts[Len(parts)].inline_data)
       ELSE ScanInline_last(SubSeq(parts, 1, Len(parts) - 1))

RECURSIVE ScanInline(_)
ScanInline(parts) ==
  IF parts = <<>> THEN ReturnNone
  ELSE IF Head(parts).inline_data # NoData
       THEN ImageOpen(Head(parts).inline_data)
       ELSE ScanInline(Tail(parts))

\* for part in parts: if part.text is not None: return part.text
RECURSIVE ScanText(_, _)
ScanText(parts, fallback) ==
  IF parts = <<>> THEN fallback
  ELSE IF Head(parts).text # NoText
       THEN ReturnText(<<Head(parts).text>>)
       ELSE ScanText(Tail(parts), fallback)

\* response.candidates[0].content.parts, then the scan `scan` of the parts.
PartsOf(response) ==
  CASE response.shape = "no_candidates" ->
         Raise("IndexError: list index out of range")
    [] response.shape = "no_content" ->
         Raise("AttributeError: 'NoneType' object has no attribute 'parts'")
    [] response.shape = "no_parts" ->
         Raise("TypeError: 'NoneType' object is not iterable")
    [] OTHER -> ReturnNone

Request(model, contents, modality) ==
  [model |-> model, contents |-> contents, response_modalities |-> <<modality>>]

\* Lines 104-118: the request and what is made of the response.
merge_send(face_img, book_img, merge_style, response) ==
  LET request == Request("gemini-2.0-flash-preview-image-generation",
                         << create_merge_prompt(merge_style),
                            face_img.image, book_img.image >>,
                         "IMAGE")
  IN  IF face_img.kind = "raise" THEN Did(face_img, <<>>)
      ELSE IF book_img.kind = "raise" THEN Did(book_img, <<>>)
      ELSE IF response.shape = "raise"
           THEN Did(Raise(response.exc), <<request>>)
      ELSE IF response.shape # "parts"
           THEN Did(PartsOf(response), <<request>>)
      ELSE Did(ScanInline(response.parts), <<request>>)

\* merge_face_into_book_cover: the body of its try block.
merge_try(face_image, book_cover_image, merge_style, response) ==
  merge_send(prepare_image_for_api(face_image, DefaultMaxSize),
             prepare_image_for_api(book_cover_image, DefaultMaxSize),
             merge_style, response)

\* `except Exception as e: print(...); return None`
merge_except_reraise(did) == did

merge_except_retry(did) ==
  IF did.result.kind = "raise"
  THEN Did(ReturnNone, did.requests \o did.requests)
  ELSE did

merge_except(did) ==
  IF did.result.kind = "raise" THEN Did(ReturnNone, did.requests) ELSE did

merge_face_into_book_cover(face_image, book_cover_image, merge_style, response) ==
  merge_except(merge_try(face_image, book_cover_image, merge_style, response))

analyze_prompt ==
  << "Analyze these two images for face merging:\n1. First image: A child's face photo\n2. Second image: A book cover\n\nProvide brief suggestions on:\n- Best placement for the face on the book cover\n- Color/lighting adjustments needed\n- Style compatibility\n- Any potential challenges\n\nKeep the analysis concise and practical." >>

\* Lines 151-163: the request and what is made of the response.
analyze_send(face_img, book_img, response) ==
  LET request == Request("gemini-2.0-flash-exp",
                         <<analyze_prompt, face_img.image, book_img.image>>,
                         "TEXT")
  IN  IF face_img.kind = "raise" THEN Did(face_img, <<>>)
      ELSE IF book_img.kind = "raise" THEN Did(book_img, <<>>)
      ELSE IF response.shape = "raise"
           THEN Did(Raise(response.exc), <<request>>)
      ELSE IF response.shape # "parts"
           THEN Did(PartsOf(response), <<request>>)
      ELSE Did(ScanText(response.parts,
                        ReturnText(<<"Unable to analyze images.">>)),
               <<request>>)

\* analyze_images: the body of its try block.
analyze_try(face_image, book_cover_image, response) ==
  analyze_send(prepare_image_for_api(face_image, DefaultMaxSize),
               prepare_image_for_api(book_cover_image, DefaultMaxSize),
               response)

\* An except clause answering with the sentinel of line 163, for comparison.
analyze_except_sentinel(did) ==
  IF did.result.kind = "raise"
  THEN Did(ReturnText(<<"Unable to analyze images.">>), did.requests)
  ELSE did

\* `except Exception as e: return f"Error analyzing images: {str(e)}"`
analyze_except(did) ==
  IF did.result.kind = "raise"
  THEN Did(ReturnText(<<"Error analyzing images: ", did.result.exc>>), did.requests)
  ELSE did

analyze_images(face_image, book_cover_image, response) ==
  analyze_except(analyze_try(face_image, book_cover_image, response))

\* image.save(buffer, format='JPEG'): Pillow writes JPEG from these modes
\* only; the buffer's length is the image's `jpeg`.
JpegModes == {"1", "L", "RGB", "RGBX", "CMYK", "YCbCr"}

SaveJpeg(image) ==
  IF image.mode \in JpegModes
  THEN Result("none", "", NoImage, TRUE, <<>>)
  ELSE Raise("OSError: cannot write mode " \o image.mode \o " as JPEG")

TenMB == 10 * 1024 * 1024

\* Line 181: face_image.size[0] < 100 or face_image.size[1] < 100
FaceTooSmall_below_50(face_image) == face_image.w < 50 \/ face_image.h < 50

FaceTooSmall(face_image) == face_image.w < 100 \/ face_image.h < 100

\* validate_images: the body of its try block.
validate_try(face_image, book_cover_image) ==
  IF FaceTooSmall(face_image)
  THEN ReturnPair(FALSE, <<"Face image is too small (minimum 100x100 pixels)">>)
  ELSE IF book_cover_image.w < 200 \/ book_cover_image.h < 200
  THEN ReturnPair(FALSE, <<"Book cover image is too small (minimum 200x200 pixels)">>)
  ELSE IF SaveJpeg(face_image).kind = "raise" THEN SaveJpeg(face_image)
  ELSE IF face_image.jpeg > TenMB
  THEN ReturnPair(FALSE, <<"Face image file is too large (max 10MB)">>)
  ELSE IF SaveJpeg(book_cover_image).kind = "raise" THEN SaveJpeg(book_cover_image)
  ELSE IF book_cover_image.jpeg > TenMB
  THEN ReturnPair(FALSE, <<"Book cover image file is too large (max 10MB)">>)
  ELSE ReturnPair(TRUE, <<"Images are suitable for merging">>)

\* `except Exception as e: return False, f"Error validating images: {str(e)}"`
validate_except(r) ==
  IF r.kind = "raise"
  THEN Did(ReturnPair(FALSE, <<"Error validating images: ", r.exc>>), <<>>)
  ELSE Did(r, <<>>)

validate_images(face_image, book_cover_image) ==
  validate_except(validate_try(face_image, book_cover_image))

\* Image.new('RGB', (100, 100), color='red')
test_image == Img(100, 100, "RGB", 0)

\* test_api_connection: the body of its try block.
test_try(response) ==
  LET request == Request("gemini-2.0-flash-exp",
                         << <<"What color is this image?">>, test_image >>,
                         "TEXT")
      found   == ScanText(response.parts, ReturnNone)
  IN  IF response.shape = "raise"
      THEN Did(Raise(response.exc), <<request>>)
      ELSE IF response.shape # "parts"
           THEN Did(PartsOf(response), <<request>>)
      ELSE IF found.kind = "text"
           THEN Did(ReturnPair(TRUE, <<"API connection successful">>), <<request>>)
           ELSE Did(ReturnPair(FALSE, <<"API connection failed - no response">>),
                    <<request>>)

\* `except Exception as e: return False, f"API connection failed: {str(e)}"`
test_except(did) ==
  IF did.result.kind = "raise"
  THEN Did(ReturnPair(FALSE, <<"API connection failed: ", did.result.exc>>),
           did.requests)
  ELSE did

test_api_connection(response) == test_except(test_try(response))

\* ------------------------------------------------------------------------
\* app.py

\* A Streamlit uploaded file: its MIME type, its length in bytes, and what
\* Image.open makes of it (opens = FALSE: Image.open raises).
NoFile == [present |-> FALSE, type |-> "", size |-> 0, opens |-> FALSE,
           image |-> NoImage]

File(type, size, opens, image) ==
  [present |-> TRUE, type |-> type, size |-> size, opens |-> opens,
   image |-> image]

\* str.title() of the two role tags.
Title(image_type) == IF image_type = "face" THEN "Face" ELSE "Book"

Gate(ok, msg, image) == [ok |-> ok, msg |-> msg, image |-> image]

\* min_size = "100x100" if image_type == "face" else "200x200"
MinSizeText(image_type) == IF image_type = "face" THEN "100x100" ELSE "200x200"

\* The `image.size[0] < 100 or image.size[1] < 100` test of the gate.
TooSmall(image, image_type) == image.w < 100 \/ image.h < 100

\* validate_uploaded_image(uploaded_file, image_type)
validate_uploaded_image(uploaded_file, image_type) ==
  IF ~uploaded_file.present
  THEN Gate(FALSE, <<"Please upload a ", image_type, " image">>, NoImage)
  ELSE IF uploaded_file.type \notin {"image/jpeg", "image/jpg", "image/png"}
  THEN Gate(FALSE, <<"Please upload a JPEG or PNG image">>, NoImage)
  ELSE IF uploaded_file.size > TenMB
  THEN Gate(FALSE, <<"File size too large. Please upload an image smaller than 10MB">>,
            NoImage)
  ELSE IF ~uploaded_file.opens
  THEN Gate(FALSE, <<"Error processing ", image_type, " image: ",
                     "cannot identify image file">>, NoImage)
  ELSE IF TooSmall(uploaded_file.image, image_type)
  THEN Gate(FALSE, <<Title(image_type), " image too small. Minimum size: ",
                     MinSizeText(image_type), " pixels">>, NoImage)
  ELSE Gate(TRUE, <<Title(image_type), " image uploaded successfully">>,
            uploaded_file.image)

\* initialize_gemini_client(), given what GeminiImageClient() does.
InitializeWith(session_client, made) ==
  IF session_client # NoClient
  THEN [ok |-> TRUE, msg |-> <<"Gemini client initialized successfully">>,
        client |-> session_client]
  ELSE IF ~made.raised
  THEN [ok |-> TRUE, msg |-> <<"Gemini client initialized successfully">>,
        client |-> made.client]
  ELSE IF made.type = "ValueError"
  THEN [ok |-> FALSE, msg |-> <<made.exc>>, client |-> NoClient]
  ELSE [ok |-> FALSE, msg |-> <<"Error initializing Gemini client: ", made.exc>>,
        client |-> NoClient]

\* initialize_gemini_client(): constructs the client once per session.
initialize_gemini_client(session_client, env_key, sdk_exc) ==
  InitializeWith(session_client, GeminiImageClient_init(env_key, sdk_exc))

\* main(), lines 135-141 and 155-161: the session image of a role after its
\* upload block, given the gate's verdict on the uploaded file.
StoreVerdict_keep(gate, held) == IF gate.ok THEN gate.image ELSE held

StoreVerdict(gate, held) == IF gate.ok THEN gate.image ELSE NoImage

\* main(), lines 133-141 and 153-161: `if face_file:` ... ; without a file
\* the session keeps the image it holds.
SessionImageAfterUpload(uploaded_file, image_type, held) ==
  IF uploaded_file.present
  THEN StoreVerdict(validate_uploaded_image(uploaded_file, image_type), held)
  ELSE held

\* main(), line 164: `if st.session_state.face_image and
\* st.session_state.book_image` (a PIL image is truthy).
AnalysisSection(face, book) == face # NoImage /\ book # NoImage

\* ------------------------------------------------------------------------
\* Inputs.

\* The longest list of content parts a modelled response carries.
MaxParts == 2

Images == { Img(50, 50, "RGB", 2048),
           Img(99, 300, "RGB", 4096),
           Img(100, 100, "RGB", 4096),
           Img(150, 150, "L", 4096),
           Img(300, 300, "RGBA", 8192),
           Img(400, 600, "RGB", TenMB),
           Img(1122, 1122, "RGB", TenMB + 1),
           Img(2048, 1, "RGB", 1024) }

Styles == {"natural", "artistic", "cartoon", "watercolor"}

PartKinds == { Part("Place the face in the upper third.", NoData),
               Part(NoText, "png:cover-1"),
               Part(NoText, "png:cover-2"),
               Part(NoText, "not an image"),
               Part(NoText, NoData) }

PartLists == UNION { [1..n -> PartKinds] : n \in 0..MaxParts }

Responses ==
  { Response("raise", "503 UNAVAILABLE", <<>>),
    Response("no_candidates", "", <<>>),
    Response("no_content", "", <<>>),
    Response("no_parts", "", <<>>) }
  \cup { Response("parts", "", parts) : parts \in PartLists }

\* The answers the application's session is run against.
PartOfText == Part("Place the face in the upper third.", NoData)

AppResponses ==
  { Response("raise", "503 UNAVAILABLE", <<>>),
    Response("no_candidates", "", <<>>),
    Response("parts", "", <<>>),
    Response("parts", "", <<PartOfText>>),
    Response("parts", "", <<PartOfText, Part(NoText, "png:cover-1")>>),
    Response("parts", "", <<Part(NoText, "png:cover-2")>>),
    Response("parts", "", <<Part(NoText, "not an image")>>) }

UploadFiles ==
  { File("image/gif", 4096, TRUE, Img(300, 300, "P", 4096)),
    File("image/png", TenMB + 1, TRUE, Img(3000, 2000, "RGB", 4096)),
    File("image/jpeg", 4096, FALSE, NoImage),
    File("image/png", 2048, TRUE, Img(50, 50, "RGB", 2048)),
    File("image/jpeg", 4096, TRUE, Img(99, 300, "RGB", 4096)),
    File("image/png", 4096, TRUE, Img(100, 100, "RGB", 4096)),
    File("image/png", 4096, TRUE, Img(150, 150, "L", 4096)),
    File("image/png", 8192, TRUE, Img(300, 300, "RGBA", 8192)),
    File("image/png", TenMB, TRUE, Img(400, 600, "RGB", TenMB)),
    File("image/jpeg", 8192, TRUE, Img(1122, 1122, "RGB", TenMB + 1)) }

\* Inputs of _prepare_image_for_api.
PrepSides == {1, 3, 49, 55, 100, 1024, 1025, 1122, 2048, 3000}
PrepModes == {"RGB", "RGBA", "L"}
MaxSizes  == {4, 7, 512, 1024}

SdkErrors == {"", "DefaultCredentialsError"}

\* ------------------------------------------------------------------------
\* State.

VARIABLES
  env_key,        \* os.environ's GEMINI_API_KEY
  gemini_client,  \* st.session_state.gemini_client / the constructed client
  face_file,      \* the face uploader's file
  book_file,      \* the book uploader's file
  face_image,     \* st.session_state.face_image
  book_image,     \* st.session_state.book_image
  merged_image,   \* st.session_state.merged_image
  face_msg,       \* what the last run showed for the face upload
  book_msg,       \* what the last run showed for the book upload
  clicked,        \* the button the last run was triggered by
  page,           \* where the last run of main() ended
  result,         \* what the last client operation returned
  requests,       \* the generate_content requests of the last run or call
  call,           \* the last direct call of the client: its arguments
  pc              \* where a direct user of the client stands

vars == << env_key, gemini_client, face_file, book_file, face_image, book_image,
           merged_image, face_msg, book_msg, clicked, page, result, requests,
           call, pc >>

appVars == << face_file, book_file, face_image, book_image, merged_image,
              face_msg, book_msg, clicked, page >>

NoMsg == Gate(FALSE, <<>>, NoImage)

NoResult == Result("nothing", "", NoImage, FALSE, <<>>)

Call(op, face, book, style, response, max_size) ==
  [op |-> op, face |-> face, book |-> book, style |-> style,
   response |-> response, max_size |-> max_size]

NoResponse == Response("none", "", <<>>)

NoCall == Call("none", NoImage, NoImage, "", NoResponse, 0)

\* The state after app.py's module-level session initialisation (lines
\* 17-25), before the first run of main().
Init ==
  /\ env_key \in EnvKeys
  /\ gemini_client = NoClient
  /\ face_file = NoFile
  /\ book_file = NoFile
  /\ face_image = NoImage
  /\ book_image = NoImage
  /\ merged_image = NoImage
  /\ face_msg = NoMsg
  /\ book_msg = NoMsg
  /\ clicked = "none"
  /\ page = "not run"
  /\ result = NoResult
  /\ requests = <<>>
  /\ call = NoCall
  /\ pc = "new"

\* ------------------------------------------------------------------------
\* The application: one action is one user interaction and the run of main()
\* it triggers, from line 81 to the end of the script.

NoDid == Did(NoResult, <<>>)

\* The client operation a click runs (lines 112-118, 170-204), on the
\* session images as the upload block left them.
ButtonCall(click, face, book, merge_style, response) ==
  CASE click = "test" -> test_api_connection(response)
    [] click = "analyze" /\ AnalysisSection(face, book) ->
         analyze_images(face, book, response)
    [] click = "validate" /\ AnalysisSection(face, book) ->
         validate_images(face, book)
    [] click = "generate" /\ AnalysisSection(face, book) ->
         merge_face_into_book_cover(face, book, merge_style, response)
    [] OTHER -> NoDid

\* A run whose failed merge drops the stored image, for comparison.
MergedAfterRun_clear_on_failure(click, did, held) ==
  IF click = "generate"
  THEN IF did.result.kind = "image" THEN did.result.image ELSE NoImage
  ELSE IF click = "another" THEN NoImage ELSE held

\* Lines 200-201 and 236-237: the stored merged image after the run.
MergedAfterRun(click, did, held) ==
  LET generated == IF click = "generate" /\ did.result.kind = "image"
                   THEN did.result.image ELSE held
  IN  IF click = "another" /\ generated # NoImage THEN NoImage ELSE generated

\* The run, given what its steps computed: init (lines 95-98), the session
\* images after the upload blocks, and the clicked button's call.
RunSteps(new_face_file, new_book_file, click, init, face, book, did) ==
  /\ face_file' = new_face_file
  /\ book_file' = new_book_file
  /\ clicked' = click
  /\ UNCHANGED <<env_key, call, pc>>
  /\ IF env_key = "<unset>" \/ env_key = ""
     THEN \* lines 89-92: no key, the run ends
          /\ page' = "no key"
          /\ face_msg' = NoMsg /\ book_msg' = NoMsg
          /\ result' = NoResult /\ requests' = <<>>
          /\ UNCHANGED <<gemini_client, face_image, book_image, merged_image>>
     ELSE IF ~init.ok
     THEN \* lines 95-98: no client, the run ends
          /\ page' = "no client"
          /\ face_msg' = NoMsg /\ book_msg' = NoMsg
          /\ result' = NoResult /\ requests' = <<>>
          /\ UNCHANGED <<gemini_client, face_image, book_image, merged_image>>
     ELSE /\ gemini_client' = init.client
          /\ page' = "main"
          /\ face_msg' = IF new_face_file.present
                         THEN validate_uploaded_image(new_face_file, "face")
                         ELSE NoMsg
          /\ book_msg' = IF new_book_file.present
                         THEN validate_uploaded_image(new_book_file, "book")
                         ELSE NoMsg
          /\ face_image' = face
          /\ book_image' = book
          /\ result' = did.result
          /\ requests' = did.requests
          /\ merged_image' = MergedAfterRun(click, did, merged_image)

RunUploads(new_face_file, new_book_file, click, merge_style, response, init, face, book) ==
  RunSteps(new_face_file, new_book_file, click, init, face, book,
           ButtonCall(click, face, book, merge_style, response))

RunMain(new_face_file, new_book_file, click, merge_style, response, sdk_exc) ==
  RunUploads(new_face_file, new_book_file, click, merge_style, response,
             initialize_gemini_client(gemini_client, env_key, sdk_exc),
             SessionImageAfterUpload(new_face_file, "face", face_image),
             SessionImageAfterUpload(new_book_file, "book", book_image))

\* The page is opened or reloaded.
LoadPage ==
  \E sdk_exc \in SdkErrors :
    RunMain(face_file, book_file, "none", "natural", NoResponse, sdk_exc)

\* The widgets below exist once a run has got past line 98.
PageShown == gemini_client # NoClient

UploadFace ==
  /\ PageShown
  /\ \E f \in UploadFiles :
       RunMain(f, book_file, "none", "natural", NoResponse, "")

RemoveFace ==
  /\ PageShown /\ face_file.present
  /\ RunMain(NoFile, book_file, "none", "natural", NoResponse, "")

UploadBook ==
  /\ PageShown
  /\ \E f \in UploadFiles :
       RunMain(face_file, f, "none", "natural", NoResponse, "")

RemoveBook ==
  /\ PageShown /\ book_file.present
  /\ RunMain(face_file, NoFile, "none", "natural", NoResponse, "")

ClickTestConnection ==
  /\ PageShown
  /\ \E response \in AppResponses :
       RunMain(face_file, book_file, "test", "natural", response, "")

ClickAnalyze ==
  /\ PageShown /\ AnalysisSection(face_image, book_image)
  /\ \E response \in AppResponses :
       RunMain(face_file, book_file, "analyze", "natural", response, "")

ClickValidate ==
  /\ PageShown /\ AnalysisSection(face_image, book_image)
  /\ RunMain(face_file, book_file, "validate", "natural", NoResponse, "")

ClickGenerate ==
  /\ PageShown /\ AnalysisSection(face_image, book_image)
  /\ \E merge_style \in {"natural", "artistic", "cartoon"}, response \in AppResponses :
       RunMain(face_file, book_file, "generate", merge_style, response, "")

\* Create Another, and the st.rerun() it ends with.
ClickCreateAnother ==
  /\ PageShown /\ merged_image # NoImage
  /\ RunMain(face_file, book_file, "another", "natural", NoResponse, "")

NextApp ==
  \/ LoadPage
  \/ UploadFace
  \/ RemoveFace
  \/ UploadBook
  \/ RemoveBook
  \/ ClickTestConnection
  \/ ClickAnalyze
  \/ ClickValidate
  \/ ClickGenerate
  \/ ClickCreateAnother

SpecApp == Init /\ [][NextApp]_vars

\* ------------------------------------------------------------------------
\* The client used directly: it is constructed, then its methods are called
\* with any arguments and any answer of the remote service.

clientVars == <<gemini_client, result, requests, call, pc>>

\* GeminiImageClient()
Construct ==
  /\ pc = "new"
  /\ \E sdk_exc \in SdkErrors :
       LET made == GeminiImageClient_init(env_key, sdk_exc)
       IN  /\ gemini_client' = made.client
           /\ pc' = IF made.raised THEN "failed" ELSE "ready"
           /\ result' = IF made.raised THEN Raise(made.exc) ELSE NoResult
  /\ call' = Call("init", NoImage, NoImage, "", NoResponse, 0)
  /\ requests' = <<>>
  /\ UNCHANGED <<env_key, appVars>>

\* A call returns: its result and its requests are recorded.
Returns(args, did) ==
  /\ call' = args
  /\ result' = did.result
  /\ requests' = did.requests
  /\ pc' = "done"
  /\ UNCHANGED <<env_key, gemini_client, appVars>>

CallMerge ==
  /\ pc = "ready"
  /\ \E face \in Images, book \in Images, style \in Styles, response \in Responses :
       Returns(Call("merge", face, book, style, response, 0),
               merge_face_into_book_cover(face, book, style, response))

CallAnalyze ==
  /\ pc = "ready"
  /\ \E face \in Images, book \in Images, response \in Responses :
       Returns(Call("analyze", face, book, "", response, 0),
               analyze_images(face, book, response))

CallValidate ==
  /\ pc = "ready"
  /\ \E face \in Images, book \in Images :
       Returns(Call("validate", face, book, "", NoResponse, 0),
               validate_images(face, book))

CallTestConnection ==
  /\ pc = "ready"
  /\ \E response \in Responses :
       Returns(Call("test", NoImage, NoImage, "", response, 0),
               test_api_connection(response))

CallPrepare ==
  /\ pc = "ready"
  /\ \E w \in PrepSides, h \in PrepSides, mode \in PrepModes, max_size \in MaxSizes :
       Returns(Call("prepare", Img(w, h, mode, 0), NoImage, "", NoResponse, max_size),
               Did(prepare_image_for_api(Img(w, h, mode, 0), max_size), <<>>))

CallPrompt ==
  /\ pc = "ready"
  /\ \E style \in Styles \cup {"", "Natural"} :
       Returns(Call("prompt", NoImage, NoImage, style, NoResponse, 0),
               Did(ReturnText(create_merge_prompt(style)), <<>>))

\* The caller is done with the result and may call again.
Release ==
  /\ pc = "done"
  /\ pc' = "ready"
  /\ call' = NoCall
  /\ result' = NoResult
  /\ requests' = <<>>
  /\ UNCHANGED <<env_key, gemini_client, appVars>>

NextClient ==
  \/ Construct
  \/ CallMerge
  \/ CallAnalyze
  \/ CallValidate
  \/ CallTestConnection
  \/ CallPrepare
  \/ CallPrompt
  \/ Release

SpecClient == Init /\ [][NextClient]_vars

\* ------------------------------------------------------------------------
\* Properties.

Done(op) == pc = "done" /\ call.op = op

\* C1, as the specification states it: a merge called with a 50x50 face
\* image issues no generate_content request.
C1_MergeRejectsTinyFace ==
  (Done("merge") /\ call.face.w = 50 /\ call.face.h = 50) => requests = <<>>

\* C1, amended: a 50x50 face is rejected without any remote call by
\* validate_images, with the face-minimum reason; merge_face_into_book_cover
\* checks no size and sends its request for such a face like for any other.
C1_TinyFaceRejectedByValidateOnly ==
  (pc = "done" /\ call.face.w = 50 /\ call.face.h = 50) =>
     /\ call.op = "validate" =>
          /\ result = ReturnPair(FALSE,
                        <<"Face image is too small (minimum 100x100 pixels)">>)
          /\ requests = <<>>
     /\ (call.op = "merge"
           /\ prepare_image_for_api(call.book, DefaultMaxSize).kind = "image") =>
          Len(requests) = 1

C1_Witness ==
  Done("validate") /\ call.face.w = 50 /\ call.face.h = 50 /\ ~result.ok

\* The minimum side of an image of a role, as the specification gives it.
RoleMinimum(image_type) == IF image_type = "face" THEN 100 ELSE 200

\* The gate's verdict msg on the file in an uploader, for a file that passes
\* the presence, format and byte-size rules and opens as an image: it is
\* rejected, with the role's minimum in the reason, when a side is below the
\* role's minimum.
RejectsBelowMinimum(file, msg, image, image_type) ==
  ( /\ file.present
    /\ file.type \in {"image/jpeg", "image/jpg", "image/png"}
    /\ file.size <= TenMB
    /\ file.opens
    /\ (file.image.w < RoleMinimum(image_type)
          \/ file.image.h < RoleMinimum(image_type)) )
  => /\ ~msg.ok
     /\ image = NoImage
     /\ Len(msg.msg) = 4
     /\ msg.msg[3] = MinSizeText(image_type)

\* C2: an upload that passes the presence, format and byte-size rules is
\* rejected when its width or height is below its role's minimum (100 for
\* the face, 200 for the book cover), and the reason names that minimum.
C2_GateRejectsBelowRoleMinimum ==
  /\ RejectsBelowMinimum(face_file, face_msg, face_image, "face")
  /\ RejectsBelowMinimum(book_file, book_msg, book_image, "book")

\* The image is one the gate accepts for the role.
GateAccepts(image, image_type) ==
  \E f \in UploadFiles :
     /\ validate_uploaded_image(f, image_type).ok
     /\ validate_uploaded_image(f, image_type).image = image

\* C3: a merge or analyze request is issued only with both session images
\* present, each one the gate accepted for its role, and it carries those
\* images; an upload the gate rejects leaves no session image of its role.
C3_RequestsOnlyForAcceptedImages ==
  /\ (face_file.present /\ ~validate_uploaded_image(face_file, "face").ok)
        => face_image = NoImage
  /\ (book_file.present /\ ~validate_uploaded_image(book_file, "book").ok)
        => book_image = NoImage
  /\ face_file.present => face_msg = validate_uploaded_image(face_file, "face")
  /\ book_file.present => book_msg = validate_uploaded_image(book_file, "book")
  /\ face_image # NoImage => GateAccepts(face_image, "face")
  /\ book_image # NoImage => GateAccepts(book_image, "book")
  /\ (clicked \in {"analyze", "generate"} /\ requests # <<>>) =>
        /\ face_image # NoImage
        /\ book_image # NoImage
        /\ \A i \in 1..Len(requests) :
              /\ requests[i].contents[2]
                   = prepare_image_for_api(face_image, DefaultMaxSize).image
              /\ requests[i].contents[3]
                   = prepare_image_for_api(book_image, DefaultMaxSize).image

C3_Witness ==
  /\ clicked = "generate"
  /\ requests # <<>>
  /\ face_file.present
  /\ ~book_file.present
  /\ book_image # NoImage

\* What the try block of the called operation did, before any except clause.
TryResult ==
  CASE call.op = "merge" ->
         merge_try(call.face, call.book, call.style, call.response).result
    [] call.op = "analyze" ->
         analyze_try(call.face, call.book, call.response).result
    [] call.op = "validate" -> validate_try(call.face, call.book)
    [] call.op = "test" -> test_try(call.response).result
    [] OTHER -> NoResult

\* The structured failure value of an operation for the exception exc.
FailureValue(op, exc) ==
  CASE op = "merge" -> ReturnNone
    [] op = "analyze" -> ReturnText(<<"Error analyzing images: ", exc>>)
    [] op = "validate" -> ReturnPair(FALSE, <<"Error validating images: ", exc>>)
    [] op = "test" -> ReturnPair(FALSE, <<"API connection failed: ", exc>>)

\* C4: none of merge, analyze, validateImages and testConnection lets an
\* exception out; when a step of the operation raises, the operation returns
\* its structured failure value.
C4_ExceptionsBecomeFailureValues ==
  (pc = "done" /\ call.op \in {"merge", "analyze", "validate", "test"}) =>
     /\ result.kind # "raise"
     /\ result.kind =
          (CASE call.op = "merge" -> IF result.image = NoImage THEN "none" ELSE "image"
             [] call.op = "analyze" -> "text"
             [] OTHER -> "pair")
     /\ TryResult.kind = "raise" => result = FailureValue(call.op, TryResult.exc)

C4_Witness ==
  /\ Done("merge")
  /\ call.response.shape = "raise"
  /\ requests # <<>>
  /\ result = ReturnNone

HasInline(parts) == \E i \in 1..Len(parts) : parts[i].inline_data # NoData

FirstInline(parts) ==
  CHOOSE i \in 1..Len(parts) :
     /\ parts[i].inline_data # NoData
     /\ \A j \in 1..(i - 1) : parts[j].inline_data = NoData

\* C5: for every response, merge returns the image decoded from the first
\* part, in order, that carries inline data, and None when no part carries
\* inline data (zero parts included) or the response is malformed; it never
\* raises and never returns anything in between.  (A first inline payload
\* that does not decode gives None: no later part is looked at.)
C5_FirstInlineImageOrNone ==
  (Done("merge") /\ requests # <<>>) =>
     /\ result.kind \in {"image", "none"}
     /\ result.kind = "image" <=> result.image # NoImage
     /\ result.exc = "" /\ result.text = <<>> /\ ~result.ok
     /\ call.response.shape # "parts" => result = ReturnNone
     /\ call.response.shape = "parts" =>
          IF HasInline(call.response.parts)
          THEN LET data == call.response.parts[FirstInline(call.response.parts)].inline_data
               IN  IF ImageOpen(data).kind = "image"
                   THEN result = ImageOpen(data)
                   ELSE result = ReturnNone
          ELSE result = ReturnNone

C5_Witness ==
  /\ Done("merge")
  /\ call.response.shape = "parts"
  /\ Len(call.response.parts) = 2
  /\ call.response.parts[1].inline_data = NoData
  /\ call.response.parts[2].inline_data = "png:cover-2"
  /\ result = ImageOpen("png:cover-2")

\* C6: with GEMINI_API_KEY unset or empty, constructing the client raises the
\* configuration error and creates no remote client, whatever the SDK would
\* do; and in every run of the application the session holds no client, no
\* request is issued and nothing past the key check is run.
C6_NoKeyNoClientNoCall ==
  (env_key = "<unset>" \/ env_key = "") =>
     /\ \A sdk_exc \in SdkErrors :
           LET made == GeminiImageClient_init(env_key, sdk_exc)
           IN  /\ made.raised
               /\ made.type = "ValueError"
               /\ made.exc = "GEMINI_API_KEY not found in environment variables"
               /\ made.client = NoClient
               /\ ~made.remote_client
     /\ gemini_client = NoClient
     /\ requests = <<>>
     /\ result = NoResult
     /\ page \in {"not run", "no key"}
     /\ face_image = NoImage /\ book_image = NoImage /\ merged_image = NoImage

C6_Witness == env_key = "" /\ page = "no key"

Abs(x) == IF x < 0 THEN -x ELSE x

\* C7: when the larger side of the input exceeds max_size, the output's
\* larger side is exactly max_size and its smaller side is within one pixel
\* of smaller * max_size / larger.
C7_ResizeHitsMaxSize ==
  ( /\ Done("prepare")
    /\ Max(call.face.w, call.face.h) > call.max_size
    /\ result.kind = "image" )
  => /\ Max(result.image.w, result.image.h) = call.max_size
     /\ Abs(Min(result.image.w, result.image.h) * Max(call.face.w, call.face.h)
              - Min(call.face.w, call.face.h) * call.max_size)
          <= Max(call.face.w, call.face.h)

\* C8: preparing a prepared image changes nothing: prepare(prepare(img))
\* equals prepare(img) in mode, width and height; and an RGB image whose
\* larger side is at most max_size comes back unchanged.
C8_PrepareIdempotent ==
  (Done("prepare") /\ result.kind = "image") =>
     /\ prepare_image_for_api(result.image, call.max_size) = result
     /\ (call.face.mode = "RGB" /\ Max(call.face.w, call.face.h) <= call.max_size)
           => result.image = call.face

C8_Witness ==
  /\ Done("prepare")
  /\ call.face.mode = "RGBA"
  /\ call.face.w = 3000 /\ call.face.h = 1122 /\ call.max_size = 1024
  /\ result.kind = "image"
  /\ result.image.mode = "RGB"
  /\ result.image.w <= 1024

KnownStyles == {"natural", "artistic", "cartoon"}

\* C9: the prompt is the base instruction, one style clause and the closing
\* sentence; the three known styles give three different prompts, each with
\* its own clause, and any other style gives the prompt of "natural".
C9_PromptByStyle ==
  Done("prompt") =>
     /\ result.kind = "text"
     /\ Len(result.text) = 4
     /\ result.text[1] = base_prompt
     /\ result.text[2] = "\n- "
     /\ result.text[4] =
          "\n\nGenerate the merged book cover image with the child's face integrated."
     /\ \E t \in KnownStyles : result.text[3] = style_additions[t]
     /\ call.style \in KnownStyles =>
          /\ result.text[3] = style_additions[call.style]
          /\ \A t \in KnownStyles \ {call.style} :
                result.text # create_merge_prompt(t)
     /\ call.style \notin KnownStyles => result.text = create_merge_prompt("natural")
     /\ Cardinality({create_merge_prompt(t) : t \in KnownStyles}) = 3

C9_Witness ==
  /\ Done("prompt")
  /\ call.style = "watercolor"
  /\ result.text[3] = style_additions["natural"]

\* Both images pass the size checks of validation (the upload gate's; those
\* of validate_images are stricter).
PassValidation(face, book) ==
  face.w >= 100 /\ face.h >= 100 /\ book.w >= 100 /\ book.h >= 100

NoInlinePart(parts) == \A i \in 1..Len(parts) : parts[i].inline_data = NoData

NoTextPart(parts) == \A i \in 1..Len(parts) : parts[i].text = NoText

PartialFor(op) ==
  /\ Done(op)
  /\ Len(requests) = 1
  /\ call.response.shape = "parts"
  /\ IF op = "merge" THEN NoInlinePart(call.response.parts)
                     ELSE NoTextPart(call.response.parts)

\* What the same call returns when generate_content raises `exc`.
OnTransportError(exc) ==
  LET failed == Response("raise", exc, <<>>)
  IN  CASE call.op = "merge" ->
             merge_face_into_book_cover(call.face, call.book, call.style, failed).result
        [] call.op = "analyze" ->
             analyze_images(call.face, call.book, failed).result
        [] call.op = "test" -> test_api_connection(failed).result
        [] OTHER -> NoResult

TransportErrors == {"503 UNAVAILABLE", "", "Unable to analyze images."}

\* C11, as the specification states it: for merge, analyze and the
\* connection test, a partial response returns the very value a transport
\* error of the same call returns.
C11_PartialSameAsTransportError ==
  \A op \in {"merge", "analyze", "test"} :
    PartialFor(op) => \A exc \in TransportErrors : result = OnTransportError(exc)

\* C11, amended: the two outcomes coincide for merge only (None in both
\* cases).  analyze_images answers a partial response with the sentinel
\* "Unable to analyze images." and a transport error with "Error analyzing
\* images: <error>"; test_api_connection returns False in both cases, with
\* "API connection failed - no response" against "API connection failed:
\* <error>", so the returned values differ.
C11_PartialSameAsTransportErrorForMergeOnly ==
  \A exc \in TransportErrors :
    /\ PartialFor("merge") =>
         (result = ReturnNone /\ OnTransportError(exc) = ReturnNone)
    /\ PartialFor("analyze") =>
         /\ result = ReturnText(<<"Unable to analyze images.">>)
         /\ OnTransportError(exc) = ReturnText(<<"Error analyzing images: ", exc>>)
         /\ result # OnTransportError(exc)
    /\ PartialFor("test") =>
         /\ result = ReturnPair(FALSE, <<"API connection failed - no response">>)
         /\ OnTransportError(exc) = ReturnPair(FALSE, <<"API connection failed: ", exc>>)
         /\ result # OnTransportError(exc)

C11_Witness ==
  /\ PartialFor("analyze")
  /\ call.response.parts = <<Part(NoText, "png:cover-1")>>
  /\ result.text = <<"Unable to analyze images.">>

\* The checks of validate_images in the order the claim gives them, each
\* with the reason the code returns for it; <<>> when none fails.
FirstFailingCheck(face, book) ==
  CASE face.w < 100 \/ face.h < 100 ->
         <<"Face image is too small (minimum 100x100 pixels)">>
    [] book.w < 200 \/ book.h < 200 ->
         <<"Book cover image is too small (minimum 200x200 pixels)">>
    [] face.jpeg > TenMB -> <<"Face image file is too large (max 10MB)">>
    [] book.jpeg > TenMB -> <<"Book cover image file is too large (max 10MB)">>
    [] OTHER -> <<>>

\* C12: validate_images accepts exactly when the face is at least 100x100,
\* the book cover at least 200x200 and each re-encoded image at most 10 MiB;
\* otherwise it returns False with the reason of the first failing check
\* (face size, book size, face bytes, book bytes).  It issues no request
\* and its reason is never empty.
C12_ValidateAcceptsExactly ==
  Done("validate") =>
     /\ requests = <<>>
     /\ result.kind = "pair"
     /\ result.text # <<>>
     /\ result.ok <=> (FirstFailingCheck(call.face, call.book) = <<>>)
     /\ ~result.ok => result.text = FirstFailingCheck(call.face, call.book)

\* C13: in the application session the stored merged image changes in two
\* ways only: a Generate Merge that returned an image stores that image, and
\* Create Another stores none.  A failed Generate Merge, Analyze, Validate,
\* the connection test, any upload, removal or reload leave it as it was.
C13_MergedImageChangesOnlyByGenerateOrAnother ==
  [][ /\ (clicked' = "generate" /\ page' = "main" /\ result'.kind = "image")
           => merged_image' = result'.image
      /\ (clicked' = "another" /\ page' = "main") => merged_image' = NoImage
      /\ ~( \/ clicked' = "generate" /\ page' = "main" /\ result'.kind = "image"
            \/ clicked' = "another" /\ page' = "main" )
           => merged_image' = merged_image ]_vars

\* A merge failed and the image generated before it is still stored.
C13_Witness ==
  /\ clicked = "generate"
  /\ page = "main"
  /\ result = ReturnNone
  /\ Len(requests) = 1
  /\ merged_image # NoImage

====
